---- MODULE Spec2Model ----
(***************************************************************************)
(* Model of the Rummikub move engine: Tile ordering, Meld.is_valid,        *)
(* Rack.remove_tiles and Solver.find_best_move with its four phases.       *)
(* Tiles are values (Tile.__eq__ compares colour, value and joker flag);   *)
(* a Python list is a sequence; a Meld is its tile list.                    *)
(***************************************************************************)
EXTENDS Integers, Sequences, FiniteSets, TLC

VARIABLES
    pc,                  \* position of the running call
    rack,                \* the caller's rack.tiles
    board,               \* the caller's board.melds, each meld as its tile list
    current_rack_tiles,  \* Solver.find_best_move: working rack
    board_copy_melds,    \* Solver.find_best_move: working meld list
    result,              \* value returned by the call
    meld,                \* Meld.tiles of the meld under validation
    arg,                 \* argument list of Rack.remove_tiles
    pre,                 \* snapshot taken when the call was entered
    before               \* working rack and melds when the phase that ran last was entered

vars ==
    <<pc, rack, board, current_rack_tiles, board_copy_melds, result, meld, arg, pre, before>>

\* ------------------------------------------------------------------------
\* Bounds of the model
\* ------------------------------------------------------------------------
MaxVal == 4          \* tile values 1..MaxVal over the boards of one valid meld
MaxRack == 2         \* rack size over the boards of one valid meld
JunkVal == 2         \* tile values 1..JunkVal of the arbitrary boards
JunkRack == 1        \* rack size over the arbitrary boards
JunkMeldLen == 4     \* length of an arbitrary stored board meld
ValidatorVal == 3    \* tile values 1..ValidatorVal of the melds handed to is_valid
ValidatorLen == 4    \* length of an arbitrary meld handed to is_valid
GroupLen == 5        \* length of a one-value meld handed to is_valid
MaxRunLen == 6       \* length of the long board run of the scavenging boards
ScavengeRack == 4    \* rack size over the scavenging boards
ScavengeVal == 3     \* tile values 1..ScavengeVal of the racks over the scavenging boards
RemoveRack == 3      \* rack size for remove_tiles
MaxArg == 2          \* length of the list passed to remove_tiles
DonorVal == 2        \* tile values 1..DonorVal of the groups and racks of the two-meld boards
DonorRun == 5        \* length of the longest run of the two-meld boards
DonorRack == 2       \* rack size over the two-meld boards
RemoveVal == 1       \* tile values 1..RemoveVal for remove_tiles

\* ------------------------------------------------------------------------
\* Tile
\* ------------------------------------------------------------------------
COLORS == <<"Red", "Orange", "Blue", "Black">>

ColorSet == {COLORS[i] : i \in 1..Len(COLORS)}

Tile(c, v) == [color |-> c, val |-> v, is_joker |-> FALSE]

JOKER == [color |-> "Joker", val |-> 30, is_joker |-> TRUE]

\* highest tile value (Tile.__init__: 1 <= val <= 13)
MAX_TILE_VAL == 13

\* the tiles of values 1..n of every colour, and the joker
Tiles(n) == {Tile(c, v) : c \in ColorSet, v \in 1..n} \cup {JOKER}

\* position of a colour name in Python's string order
StrOrd(c) ==
    CASE c = "Black" -> 1
      [] c = "Blue" -> 2
      [] c = "Joker" -> 3
      [] c = "Orange" -> 4
      [] c = "Red" -> 5

\* Tile.__lt__: (val, color) < (other.val, other.color)
TileLt(a, b) ==
    \/ a.val < b.val
    \/ a.val = b.val /\ StrOrd(a.color) < StrOrd(b.color)

\* ------------------------------------------------------------------------
\* Python list primitives
\* ------------------------------------------------------------------------
Range(s) == {s[i] : i \in 1..Len(s)}

Count(s, x) == Cardinality({i \in 1..Len(s) : s[i] = x})

\* s without the element at (1-based) position i
RemoveAt(s, i) == SubSeq(s, 1, i - 1) \o SubSeq(s, i + 1, Len(s))

\* first position of x in s, 0 when absent
RECURSIVE IndexFrom(_, _, _)
IndexFrom(s, x, i) ==
    IF i > Len(s) THEN 0
    ELSE IF s[i] = x THEN i
    ELSE IndexFrom(s, x, i + 1)

IndexOf(s, x) == IndexFrom(s, x, 1)

\* list.remove(x): drops the first element equal to x; raises ValueError when absent
ListRemove(s, x) ==
    LET i == IndexOf(s, x)
    IN  IF i = 0 THEN [exc |-> "ValueError", list |-> s]
        ELSE [exc |-> "none", list |-> RemoveAt(s, i)]

\* stable insertion of t into an already sorted list
RECURSIVE InsertSorted(_, _)
InsertSorted(s, t) ==
    IF s = <<>> THEN <<t>>
    ELSE IF TileLt(t, Head(s)) THEN <<t>> \o s
    ELSE <<Head(s)>> \o InsertSorted(Tail(s), t)

RECURSIVE SortFrom(_, _, _)
SortFrom(s, i, acc) ==
    IF i > Len(s) THEN acc
    ELSE SortFrom(s, i + 1, InsertSorted(acc, s[i]))

\* a sort that leaves the list as it is
Unsorted(s) == s

\* list.sort() / sorted() on tiles: stable, ordered by Tile.__lt__
SortTiles(s) == SortFrom(s, 1, <<>>)

IsSortedTiles(s) == \A i \in 1..(Len(s) - 1) : ~TileLt(s[i + 1], s[i])

IsJoker(t) == t.is_joker

NotJoker(t) == ~t.is_joker

\* ------------------------------------------------------------------------
\* Meld.is_valid
\* ------------------------------------------------------------------------
\* Meld._group without the colour comparison of lines 70-73
GroupAnyColors(real_tiles, num_jokers) ==
    (Len(real_tiles) + num_jokers) \in {3, 4}

\* Meld._group
Group(real_tiles, num_jokers) ==
    IF (Len(real_tiles) + num_jokers) \notin {3, 4} THEN FALSE
    ELSE LET colors == [i \in 1..Len(real_tiles) |-> real_tiles[i].color]
         IN  IF Len(colors) # Cardinality(Range(colors)) THEN FALSE
             ELSE TRUE

\* loop of Meld._run over consecutive pairs: dup is set when a zero gap returns False
RECURSIVE RunGaps(_, _, _)
RunGaps(values, i, needed_jokers) ==
    IF i > Len(values) - 1 THEN [dup |-> FALSE, needed |-> needed_jokers]
    ELSE LET gap == values[i + 1] - values[i]
         IN  IF gap = 0 THEN [dup |-> TRUE, needed |-> needed_jokers]
             ELSE RunGaps(values, i + 1, needed_jokers + (gap - 1))

\* Meld._run charging the whole gap, not gap - 1
RunWholeGap(real_tiles, num_jokers) ==
    LET values == [i \in 1..Len(real_tiles) |-> real_tiles[i].val]
        g == RunGaps(values, 1, 0)
    IN  IF g.dup THEN FALSE
        ELSE num_jokers >= g.needed + (Len(values) - 1)

\* Meld._run
Run(real_tiles, num_jokers) ==
    LET values == [i \in 1..Len(real_tiles) |-> real_tiles[i].val]
        g == RunGaps(values, 1, 0)
    IN  IF g.dup THEN FALSE
        ELSE num_jokers >= g.needed

\* the list Meld.is_valid leaves in self.tiles (it sorts in place past the size check)
TilesAfterIsValid(tiles) ==
    IF Len(tiles) < 3 THEN tiles ELSE SortTiles(tiles)

\* Meld.is_valid: the value returned
IsValid(tiles) ==
    IF Len(tiles) < 3 THEN FALSE
    ELSE LET sorted == SortTiles(tiles)
             jokers == SelectSeq(sorted, IsJoker)
             real_tiles == SelectSeq(sorted, NotJoker)
             num_jokers == Len(jokers)
         IN  IF real_tiles = <<>> THEN FALSE
             ELSE IF Cardinality({real_tiles[i].val : i \in 1..Len(real_tiles)}) = 1
                  THEN Group(real_tiles, num_jokers)
                  ELSE IF Cardinality({real_tiles[i].color : i \in 1..Len(real_tiles)}) = 1
                       THEN Run(real_tiles, num_jokers)
                       ELSE FALSE

\* ------------------------------------------------------------------------
\* Solver._find_valid_sets_in_pool
\* ------------------------------------------------------------------------
\* keys of by_val in insertion order: the values of the real tiles of pool, each at
\* its first occurrence
RECURSIVE ValsInOrder(_, _, _)
ValsInOrder(pool, i, acc) ==
    IF i > Len(pool) THEN acc
    ELSE IF pool[i].is_joker \/ pool[i].val \in Range(acc)
         THEN ValsInOrder(pool, i + 1, acc)
         ELSE ValsInOrder(pool, i + 1, Append(acc, pool[i].val))

\* keys of by_color in insertion order
RECURSIVE ColorsInOrder(_, _, _)
ColorsInOrder(pool, i, acc) ==
    IF i > Len(pool) THEN acc
    ELSE IF pool[i].is_joker \/ pool[i].color \in Range(acc)
         THEN ColorsInOrder(pool, i + 1, acc)
         ELSE ColorsInOrder(pool, i + 1, Append(acc, pool[i].color))

\* every tile of the bucket, the seen_colors test of lines 428-431 left out
AllColorTiles(tiles, i, acc) == tiles

\* first tile of each colour, in list order (unique_color_tiles)
RECURSIVE UniqueColorTiles(_, _, _)
UniqueColorTiles(tiles, i, acc) ==
    IF i > Len(tiles) THEN acc
    ELSE IF \E k \in 1..Len(acc) : acc[k].color = tiles[i].color
         THEN UniqueColorTiles(tiles, i + 1, acc)
         ELSE UniqueColorTiles(tiles, i + 1, Append(acc, tiles[i]))

\* the melds appended for one value bucket (Solver.py 422-442)
GroupMelds(tiles, jokers) ==
    IF Len(tiles) + Len(jokers) >= 3
    THEN LET u == UniqueColorTiles(tiles, 1, <<>>)
         IN  (IF Len(u) >= 3 THEN <<SubSeq(u, 1, 3)>> ELSE <<>>)
             \o (IF Len(u) = 4 THEN <<SubSeq(u, 1, 4)>> ELSE <<>>)
             \o (IF Len(u) = 2 /\ jokers # <<>> THEN <<u \o <<jokers[1]>>>> ELSE <<>>)
    ELSE <<>>

\* stable insertion by value alone (tiles.sort(key=lambda x: x.val))
RECURSIVE InsertByVal(_, _)
InsertByVal(s, t) ==
    IF s = <<>> THEN <<t>>
    ELSE IF t.val < Head(s).val THEN <<t>> \o s
    ELSE <<Head(s)>> \o InsertByVal(Tail(s), t)

RECURSIVE SortByValFrom(_, _, _)
SortByValFrom(s, i, acc) ==
    IF i > Len(s) THEN acc
    ELSE SortByValFrom(s, i + 1, InsertByVal(acc, s[i]))

SortByVal(s) == SortByValFrom(s, 1, <<>>)

\* the scan of one colour bucket (Solver.py 457-480); out collects the melds appended
RECURSIVE RunScan(_, _, _, _, _)
RunScan(tiles, i, current_run, jokers, out) ==
    IF i > Len(tiles)
    THEN IF Len(current_run) >= 3 THEN Append(out, current_run) ELSE out
    ELSE IF current_run = <<>>
         THEN RunScan(tiles, i + 1, <<tiles[i]>>, jokers, out)
         ELSE LET last == current_run[Len(current_run)]
              IN  IF tiles[i].val = last.val + 1
                  THEN RunScan(tiles, i + 1, Append(current_run, tiles[i]), jokers, out)
                  ELSE IF tiles[i].val = last.val
                  THEN RunScan(tiles, i + 1, current_run, jokers, out)
                  ELSE LET temp_run == current_run \o <<jokers[1], tiles[i]>>
                           out1 == IF jokers # <<>> /\ tiles[i].val = last.val + 2
                                      /\ Len(temp_run) >= 3
                                   THEN Append(out, temp_run)
                                   ELSE out
                           out2 == IF Len(current_run) >= 3
                                   THEN Append(out1, current_run)
                                   ELSE out1
                      IN  RunScan(tiles, i + 1, <<tiles[i]>>, jokers, out2)

\* the melds appended for one colour bucket (Solver.py 450-480)
RunMelds(bucket, jokers) ==
    LET tiles == SortByVal(bucket)
    IN  IF Len(tiles) < 2 /\ jokers = <<>> THEN <<>>
        ELSE RunScan(tiles, 1, <<>>, jokers, <<>>)

RECURSIVE GroupsOverVals(_, _, _, _)
GroupsOverVals(pool, vals, k, jokers) ==
    IF k > Len(vals) THEN <<>>
    ELSE GroupMelds(SelectSeq(pool, LAMBDA t : ~t.is_joker /\ t.val = vals[k]), jokers)
         \o GroupsOverVals(pool, vals, k + 1, jokers)

RECURSIVE RunsOverColors(_, _, _, _)
RunsOverColors(pool, colors, k, jokers) ==
    IF k > Len(colors) THEN <<>>
    ELSE RunMelds(SelectSeq(pool, LAMBDA t : ~t.is_joker /\ t.color = colors[k]), jokers)
         \o RunsOverColors(pool, colors, k + 1, jokers)

\* Solver._find_valid_sets_in_pool: the list valid_melds, in the order it is built
FindValidSetsInPool(pool) ==
    LET jokers == SelectSeq(pool, IsJoker)
    IN  GroupsOverVals(pool, ValsInOrder(pool, 1, <<>>), 1, jokers)
        \o RunsOverColors(pool, ColorsInOrder(pool, 1, <<>>), 1, jokers)

\* stable sort of melds by descending size (sort(key=len, reverse=True))
RECURSIVE InsertBySize(_, _)
InsertBySize(s, m) ==
    IF s = <<>> THEN <<m>>
    ELSE IF Len(m) > Len(Head(s)) THEN <<m>> \o s
    ELSE <<Head(s)>> \o InsertBySize(Tail(s), m)

RECURSIVE SortBySizeFrom(_, _, _)
SortBySizeFrom(s, i, acc) ==
    IF i > Len(s) THEN acc
    ELSE SortBySizeFrom(s, i + 1, InsertBySize(acc, s[i]))

SortBySizeDesc(s) == SortBySizeFrom(s, 1, <<>>)

\* ------------------------------------------------------------------------
\* Phase 1: Solver._phase_joker_retrieval
\* ------------------------------------------------------------------------
NoIdentity == [found |-> FALSE, color |-> "Joker", val |-> 0]

\* the two-colour sets on which the iteration order of a Python set of strings decides
ColorPairs == {S \in SUBSET ColorSet : Cardinality(S) = 2}

ColorIdx(c) == CHOOSE i \in 1..Len(COLORS) : COLORS[i] = c

\* missing[0] of list(all_colors - existing_colors): the order of a set of strings is
\* fixed by the process's string hashing, not by the program; flip holds the pairs
\* that this process lists in the order opposite to COLORS
MissingFirst(missing, flip) ==
    LET lo == CHOOSE c \in missing : \A d \in missing : ColorIdx(c) <= ColorIdx(d)
        hi == CHOOSE c \in missing : \A d \in missing : ColorIdx(c) >= ColorIdx(d)
    IN  IF missing \in flip THEN hi ELSE lo

\* _get_joker_identity taking the left neighbour's own value for a run
GetJokerIdentitySameVal(tiles, joker_idx, flip) ==
    IF joker_idx > 1 /\ ~tiles[joker_idx - 1].is_joker
    THEN [found |-> TRUE, color |-> tiles[joker_idx - 1].color,
          val |-> tiles[joker_idx - 1].val]
    ELSE NoIdentity

\* Solver._get_joker_identity; joker_idx is the 1-based position
GetJokerIdentity(tiles, joker_idx, flip) ==
    LET real_neighbors == SelectSeq(tiles, NotJoker)
    IN  IF real_neighbors = <<>> THEN NoIdentity
        ELSE IF /\ Cardinality({real_neighbors[i].val : i \in 1..Len(real_neighbors)}) = 1
                /\ Cardinality({real_neighbors[i].color : i \in 1..Len(real_neighbors)}) > 1
        THEN LET group_val == real_neighbors[1].val
                 existing_colors == {real_neighbors[i].color : i \in 1..Len(real_neighbors)}
                 missing == ColorSet \ existing_colors
             IN  IF missing # {}
                 THEN [found |-> TRUE, color |-> MissingFirst(missing, flip), val |-> group_val]
                 ELSE NoIdentity
        ELSE IF joker_idx > 1 /\ ~tiles[joker_idx - 1].is_joker
        THEN [found |-> TRUE, color |-> tiles[joker_idx - 1].color,
              val |-> tiles[joker_idx - 1].val + 1]
        ELSE IF joker_idx < Len(tiles) /\ ~tiles[joker_idx + 1].is_joker
        THEN [found |-> TRUE, color |-> tiles[joker_idx + 1].color,
              val |-> tiles[joker_idx + 1].val - 1]
        ELSE NoIdentity

\* first position in rack_tiles of a non-joker of that colour and value, 0 when none
RECURSIVE SwapCandidate(_, _, _)
SwapCandidate(rack_tiles, id, i) ==
    IF i > Len(rack_tiles) THEN 0
    ELSE IF ~rack_tiles[i].is_joker /\ rack_tiles[i].color = id.color
            /\ rack_tiles[i].val = id.val
         THEN i
         ELSE SwapCandidate(rack_tiles, id, i + 1)

\* the loop over joker_indices of one meld (Solver.py 72-97)
RECURSIVE JokerLoop(_, _, _, _, _)
JokerLoop(tiles, joker_indices, k, rack_tiles, flip) ==
    IF k > Len(joker_indices) THEN [tiles |-> tiles, rack |-> rack_tiles, exc |-> "none"]
    ELSE LET j_idx == joker_indices[k]
             id == GetJokerIdentity(tiles, j_idx, flip)
             c == IF id.found THEN SwapCandidate(rack_tiles, id, 1) ELSE 0
         IN  IF c = 0 THEN JokerLoop(tiles, joker_indices, k + 1, rack_tiles, flip)
             ELSE LET rm == ListRemove(rack_tiles, rack_tiles[c])
                  IN  [tiles |-> [tiles EXCEPT ![j_idx] = rack_tiles[c]],
                       rack |-> Append(rm.list, tiles[j_idx]),
                       exc |-> rm.exc]

RECURSIVE IndicesWhere(_, _, _)
IndicesWhere(s, i, acc) ==
    IF i > Len(s) THEN acc
    ELSE IndicesWhere(s, i + 1, IF s[i].is_joker THEN Append(acc, i) ELSE acc)

\* Solver._phase_joker_retrieval from meld m on
RECURSIVE JokerRetrievalFrom(_, _, _, _)
JokerRetrievalFrom(rack_tiles, board_melds, m, flip) ==
    IF m > Len(board_melds) THEN [rack |-> rack_tiles, melds |-> board_melds, exc |-> "none"]
    ELSE LET r == JokerLoop(board_melds[m], IndicesWhere(board_melds[m], 1, <<>>), 1,
                            rack_tiles, flip)
         IN  IF r.exc # "none"
             THEN [rack |-> r.rack, melds |-> board_melds, exc |-> r.exc]
             ELSE JokerRetrievalFrom(r.rack, [board_melds EXCEPT ![m] = r.tiles], m + 1, flip)

PhaseJokerRetrieval(rack_tiles, board_melds, flip) ==
    JokerRetrievalFrom(rack_tiles, board_melds, 1, flip)

\* ------------------------------------------------------------------------
\* Phase 2: Solver._phase_rack_only
\* ------------------------------------------------------------------------
\* the availability test of lines 172-177
MatchRackOnly(t, rt) ==
    \/ t.is_joker /\ rt.is_joker
    \/ ~t.is_joker /\ ~rt.is_joker /\ t.val = rt.val /\ t.color = rt.color

\* first position of temp_rack matching t, 0 when none (lines 169-181)
RECURSIVE FirstMatch(_, _, _)
FirstMatch(list, t, i) ==
    IF i > Len(list) THEN 0
    ELSE IF MatchRackOnly(t, list[i]) THEN i
    ELSE FirstMatch(list, t, i + 1)

\* the loop over needed_tiles (lines 167-185)
RECURSIVE NeedLoop(_, _, _, _)
NeedLoop(needed_tiles, k, temp_rack, to_remove) ==
    IF k > Len(needed_tiles) THEN [can_make |-> TRUE, to_remove |-> to_remove]
    ELSE LET i == FirstMatch(temp_rack, needed_tiles[k], 1)
         IN  IF i = 0 THEN [can_make |-> FALSE, to_remove |-> to_remove]
             ELSE NeedLoop(needed_tiles, k + 1, RemoveAt(temp_rack, i),
                           Append(to_remove, temp_rack[i]))

\* rack_tiles.remove(tr) for every tr of to_remove (lines 190-191)
RECURSIVE RemoveAll(_, _, _)
RemoveAll(list, to_remove, k) ==
    IF k > Len(to_remove) THEN [exc |-> "none", list |-> list]
    ELSE LET r == ListRemove(list, to_remove[k])
         IN  IF r.exc # "none" THEN r
             ELSE RemoveAll(r.list, to_remove, k + 1)

\* the loop over possible_melds (lines 155-191)
RECURSIVE RackOnlyLoop(_, _, _, _)
RackOnlyLoop(possible_melds, k, rack_tiles, formed_melds) ==
    IF k > Len(possible_melds)
    THEN [rack |-> rack_tiles, formed |-> formed_melds, exc |-> "none"]
    ELSE LET n == NeedLoop(possible_melds[k], 1, rack_tiles, <<>>)
         IN  IF ~n.can_make
             THEN RackOnlyLoop(possible_melds, k + 1, rack_tiles, formed_melds)
             ELSE LET r == RemoveAll(rack_tiles, n.to_remove, 1)
                  IN  IF r.exc # "none"
                      THEN [rack |-> r.list, formed |-> Append(formed_melds, possible_melds[k]),
                            exc |-> r.exc]
                      ELSE RackOnlyLoop(possible_melds, k + 1, r.list,
                                        Append(formed_melds, possible_melds[k]))

PhaseRackOnly(rack_tiles) ==
    RackOnlyLoop(SortBySizeDesc(FindValidSetsInPool(rack_tiles)), 1, rack_tiles, <<>>)

\* ------------------------------------------------------------------------
\* Phase 3: Solver._phase_extensions
\* ------------------------------------------------------------------------
\* _can_extend without the empty-meld return of line 223
CanExtendUnguarded(tiles, tile) ==
    IF tile.is_joker THEN [exc |-> "none", fits |-> TRUE]
    ELSE IF Len(tiles) < 1 THEN [exc |-> "IndexError", fits |-> FALSE]
    ELSE LET real_tiles == SelectSeq(tiles, NotJoker)
             vals == {real_tiles[i].val : i \in 1..Len(real_tiles)}
             colors == {real_tiles[i].color : i \in 1..Len(real_tiles)}
         IN  [exc |-> "none",
              fits |-> \/ real_tiles = <<>>
                       \/ Cardinality(vals) = 1 /\ tile.val \in vals /\ tile.color \notin colors
                       \/ Cardinality(colors) = 1 /\ tile.color \in colors]

\* _can_extend without the run check of lines 244-251
CanExtendGroupOnly(tiles, tile) ==
    IF tiles = <<>> THEN [exc |-> "none", fits |-> FALSE]
    ELSE IF tile.is_joker THEN [exc |-> "none", fits |-> TRUE]
    ELSE LET real_tiles == SelectSeq(tiles, NotJoker)
             vals == {real_tiles[i].val : i \in 1..Len(real_tiles)}
             colors == {real_tiles[i].color : i \in 1..Len(real_tiles)}
         IN  [exc |-> "none",
              fits |-> \/ real_tiles = <<>>
                       \/ Cardinality(vals) = 1 /\ tile.val \in vals /\ tile.color \notin colors]

\* Solver._can_extend: the value returned, or the IndexError of meld.tiles[0]
CanExtend(tiles, tile) ==
    IF tiles = <<>> THEN [exc |-> "none", fits |-> FALSE]
    ELSE IF tile.is_joker THEN [exc |-> "none", fits |-> TRUE]
    ELSE IF Len(tiles) < 1 THEN [exc |-> "IndexError", fits |-> FALSE]
    ELSE LET real_tiles == SelectSeq(tiles, NotJoker)
             vals == {real_tiles[i].val : i \in 1..Len(real_tiles)}
             colors == {real_tiles[i].color : i \in 1..Len(real_tiles)}
         IN  IF real_tiles = <<>> THEN [exc |-> "none", fits |-> TRUE]
             ELSE IF Cardinality(vals) = 1 /\ tile.val \in vals /\ tile.color \notin colors
             THEN [exc |-> "none", fits |-> TRUE]
             ELSE IF Cardinality(colors) = 1 /\ tile.color \in colors
             THEN [exc |-> "none", fits |-> TRUE]
             ELSE [exc |-> "none", fits |-> FALSE]

\* the loop over board_melds without the break of line 208: a tile that was played
\* goes on to the melds after it (the result reports played once any meld took it)
RECURSIVE ExtendLoopNoBreak(_, _, _)
ExtendLoopNoBreak(tile, board_melds, m) ==
    IF m > Len(board_melds) THEN [melds |-> board_melds, played |-> FALSE, exc |-> "none"]
    ELSE LET ce == CanExtend(board_melds[m], tile)
         IN  IF ce.exc # "none"
             THEN [melds |-> board_melds, played |-> FALSE, exc |-> ce.exc]
             ELSE IF ~ce.fits THEN ExtendLoopNoBreak(tile, board_melds, m + 1)
             ELSE LET appended == SortTiles(Append(board_melds[m], tile))
                  IN  IF IsValid(appended)
                      THEN LET rest == ExtendLoopNoBreak(
                                   tile,
                                   [board_melds EXCEPT ![m] = TilesAfterIsValid(appended)],
                                   m + 1)
                           IN  [rest EXCEPT !.played = TRUE]
                      ELSE LET rm == ListRemove(TilesAfterIsValid(appended), tile)
                           IN  IF rm.exc # "none"
                               THEN [melds |-> board_melds, played |-> FALSE, exc |-> rm.exc]
                               ELSE ExtendLoopNoBreak(
                                        tile, [board_melds EXCEPT ![m] = rm.list], m + 1)

\* the loop over board_melds without the revert of lines 217-219: a tile whose append
\* broke the meld stays in it
RECURSIVE ExtendLoopNoRevert(_, _, _)
ExtendLoopNoRevert(tile, board_melds, m) ==
    IF m > Len(board_melds) THEN [melds |-> board_melds, played |-> FALSE, exc |-> "none"]
    ELSE LET ce == CanExtend(board_melds[m], tile)
         IN  IF ce.exc # "none"
             THEN [melds |-> board_melds, played |-> FALSE, exc |-> ce.exc]
             ELSE IF ~ce.fits THEN ExtendLoopNoRevert(tile, board_melds, m + 1)
             ELSE LET appended == SortTiles(Append(board_melds[m], tile))
                  IN  IF IsValid(appended)
                      THEN [melds |-> [board_melds EXCEPT ![m] = TilesAfterIsValid(appended)],
                            played |-> TRUE, exc |-> "none"]
                      ELSE ExtendLoopNoRevert(
                               tile, [board_melds EXCEPT ![m] = TilesAfterIsValid(appended)],
                               m + 1)

\* the loop over board_melds for one rack tile (lines 207-219)
RECURSIVE ExtendLoop(_, _, _)
ExtendLoop(tile, board_melds, m) ==
    IF m > Len(board_melds) THEN [melds |-> board_melds, played |-> FALSE, exc |-> "none"]
    ELSE LET ce == CanExtend(board_melds[m], tile)
         IN  IF ce.exc # "none"
             THEN [melds |-> board_melds, played |-> FALSE, exc |-> ce.exc]
             ELSE IF ~ce.fits THEN ExtendLoop(tile, board_melds, m + 1)
             ELSE LET appended == SortTiles(Append(board_melds[m], tile))
                  IN  IF IsValid(appended)
                      THEN [melds |-> [board_melds EXCEPT ![m] = TilesAfterIsValid(appended)],
                            played |-> TRUE, exc |-> "none"]
                      ELSE LET rm == ListRemove(TilesAfterIsValid(appended), tile)
                           IN  IF rm.exc # "none"
                               THEN [melds |-> board_melds, played |-> FALSE, exc |-> rm.exc]
                               ELSE ExtendLoop(tile, [board_melds EXCEPT ![m] = rm.list], m + 1)

\* the loop over the rack positions, last to first (lines 203-219); i is 1-based
RECURSIVE ExtensionsFrom(_, _, _)
ExtensionsFrom(rack_tiles, board_melds, i) ==
    IF i < 1 THEN [rack |-> rack_tiles, melds |-> board_melds, exc |-> "none"]
    ELSE LET r == ExtendLoop(rack_tiles[i], board_melds, 1)
         IN  IF r.exc # "none" THEN [rack |-> rack_tiles, melds |-> r.melds, exc |-> r.exc]
             ELSE ExtensionsFrom(IF r.played THEN RemoveAt(rack_tiles, i) ELSE rack_tiles,
                                 r.melds, i - 1)

PhaseExtensions(rack_tiles, board_melds) ==
    ExtensionsFrom(rack_tiles, board_melds, Len(rack_tiles))

\* ------------------------------------------------------------------------
\* Phase 4: Solver._phase_loose_tile_scavenging
\* ------------------------------------------------------------------------
\* loose options with a group treated as a run: only the two end tiles
LooseEndsOnly(tiles, src) ==
    IF Len(tiles) > 3
    THEN IF SelectSeq(tiles, NotJoker) = <<>> THEN <<>>
         ELSE <<[tile |-> tiles[1], src |-> src], [tile |-> tiles[Len(tiles)], src |-> src]>>
    ELSE <<>>

\* the loose options of one (sorted) meld; src is the meld's position in board_melds
LooseOfMeld(tiles, src) ==
    IF Len(tiles) > 3
    THEN LET real_tiles == SelectSeq(tiles, NotJoker)
             is_group == Cardinality({real_tiles[i].val : i \in 1..Len(real_tiles)}) = 1
         IN  IF real_tiles = <<>> THEN <<>>
             ELSE IF is_group
             THEN [i \in 1..Len(tiles) |-> [tile |-> tiles[i], src |-> src]]
             ELSE <<[tile |-> tiles[1], src |-> src], [tile |-> tiles[Len(tiles)], src |-> src]>>
    ELSE <<>>

RECURSIVE LooseOptions(_, _)
LooseOptions(board_melds, m) ==
    IF m > Len(board_melds) THEN <<>>
    ELSE LooseOfMeld(board_melds[m], m) \o LooseOptions(board_melds, m + 1)

\* the match of lines 332 and 345
MatchScavenge(t, rt) ==
    \/ t.is_joker /\ rt.is_joker
    \/ t.val = rt.val /\ t.color = rt.color

Min(S) == CHOOSE x \in S : \A y \in S : x <= y

\* the loop over new_meld.tiles (lines 327-354)
RECURSIVE IngredientLoop(_, _, _, _, _)
IngredientLoop(needed, k, rack_tiles, loose_options, st) ==
    IF k > Len(needed) THEN st
    ELSE LET t == needed[k]
             inRack == {i \in st.avail_rack_indices : MatchScavenge(t, rack_tiles[i])}
             inLoose == {i \in st.avail_loose_indices :
                            MatchScavenge(loose_options[i].tile, t)}
         IN  IF inRack # {}
             THEN IngredientLoop(needed, k + 1, rack_tiles, loose_options,
                      [st EXCEPT !.uses_rack = TRUE,
                                 !.avail_rack_indices = @ \ {Min(inRack)},
                                 !.temp_rack_indices_used = Append(@, Min(inRack))])
             ELSE IF inLoose # {}
             THEN IngredientLoop(needed, k + 1, rack_tiles, loose_options,
                      [st EXCEPT !.avail_loose_indices = @ \ {Min(inLoose)},
                                 !.temp_needed_loose_indices = Append(@, Min(inLoose))])
             ELSE [st EXCEPT !.valid_meld_construction = FALSE]

\* the ingredient check with uses_rack starting out True
IngredientsRackAssumed(needed, rack_tiles, loose_options) ==
    IngredientLoop(needed, 1, rack_tiles, loose_options,
        [uses_rack |-> TRUE, valid_meld_construction |-> TRUE,
         avail_rack_indices |-> 1..Len(rack_tiles),
         avail_loose_indices |-> 1..Len(loose_options),
         temp_needed_loose_indices |-> <<>>, temp_rack_indices_used |-> <<>>])

\* the ingredient check of one candidate (lines 312-354)
Ingredients(needed, rack_tiles, loose_options) ==
    IngredientLoop(needed, 1, rack_tiles, loose_options,
        [uses_rack |-> FALSE, valid_meld_construction |-> TRUE,
         avail_rack_indices |-> 1..Len(rack_tiles),
         avail_loose_indices |-> 1..Len(loose_options),
         temp_needed_loose_indices |-> <<>>, temp_rack_indices_used |-> <<>>])

\* current_move_damage[src]: loose tiles this move takes from meld src (lines 359-362)
MoveDamage(loose_options, idxs, src) ==
    Cardinality({k \in 1..Len(idxs) : loose_options[idxs[k]].src = src})

\* Phase 4 without the safety check: every move is taken to be safe
IsSafeAlways(board_melds, loose_options, idxs, source_damage) == TRUE

\* the safety check of lines 364-371
IsSafe(board_melds, loose_options, idxs, source_damage) ==
    \A src \in {loose_options[idxs[k]].src : k \in 1..Len(idxs)} :
        Len(board_melds[src]) - source_damage[src] - MoveDamage(loose_options, idxs, src) >= 3

\* rack_tiles.pop(idx) for the used positions, highest first (lines 381-382)
PopAll(rack_tiles, used) ==
    LET keep == {i \in 1..Len(rack_tiles) : \A k \in 1..Len(used) : used[k] # i}
        F[i \in 0..Len(rack_tiles)] ==
            IF i = 0 THEN <<>>
            ELSE IF i \in keep THEN Append(F[i - 1], rack_tiles[i]) ELSE F[i - 1]
    IN  F[Len(rack_tiles)]

\* position of the first meld from m on that holds tile t, 0 when none
RECURSIVE FirstHolder(_, _, _)
FirstHolder(board_melds, t, m) ==
    IF m > Len(board_melds) THEN 0
    ELSE IF t \in Range(board_melds[m]) THEN m
    ELSE FirstHolder(board_melds, t, m + 1)

\* removal of the claimed loose tiles by value match alone: each from the first board
\* meld that holds an equal tile, whatever its source
RECURSIVE RemoveLooseByValue(_, _, _, _)
RemoveLooseByValue(board_melds, loose_options, idxs, k) ==
    IF k > Len(idxs) THEN [melds |-> board_melds, exc |-> "none"]
    ELSE LET l == loose_options[idxs[k]]
             h == FirstHolder(board_melds, l.tile, 1)
         IN  IF h = 0 THEN RemoveLooseByValue(board_melds, loose_options, idxs, k + 1)
             ELSE RemoveLooseByValue(
                      [board_melds EXCEPT ![h] = ListRemove(board_melds[h], l.tile).list],
                      loose_options, idxs, k + 1)

\* removal of the claimed loose tiles from their source melds (lines 385-389)
RECURSIVE RemoveLoose(_, _, _, _)
RemoveLoose(board_melds, loose_options, idxs, k) ==
    IF k > Len(idxs) THEN [melds |-> board_melds, exc |-> "none"]
    ELSE LET l == loose_options[idxs[k]]
         IN  IF l.tile \in Range(board_melds[l.src])
             THEN LET rm == ListRemove(board_melds[l.src], l.tile)
                  IN  IF rm.exc # "none" THEN [melds |-> board_melds, exc |-> rm.exc]
                      ELSE RemoveLoose([board_melds EXCEPT ![l.src] = rm.list],
                                       loose_options, idxs, k + 1)
             ELSE RemoveLoose(board_melds, loose_options, idxs, k + 1)

\* the loop over potential_new_melds (lines 311-391)
RECURSIVE ScavengeLoop(_, _, _, _)
ScavengeLoop(potential_new_melds, k, loose_options, st) ==
    IF k > Len(potential_new_melds) THEN st
    ELSE LET new_meld == potential_new_melds[k]
             g == Ingredients(new_meld, st.rack, loose_options)
             idxs == g.temp_needed_loose_indices
         IN  IF g.valid_meld_construction /\ g.uses_rack
                /\ IsSafe(st.melds, loose_options, idxs, st.source_damage)
             THEN LET rl == RemoveLoose(st.melds, loose_options, idxs, 1)
                      next == [rack |-> PopAll(st.rack, g.temp_rack_indices_used),
                               melds |-> rl.melds,
                               final_new_melds |-> Append(st.final_new_melds, new_meld),
                               source_damage |->
                                   [src \in DOMAIN st.source_damage |->
                                       st.source_damage[src]
                                       + MoveDamage(loose_options, idxs, src)],
                               exc |-> rl.exc]
                  IN  IF rl.exc # "none" THEN next
                      ELSE ScavengeLoop(potential_new_melds, k + 1, loose_options, next)
             ELSE ScavengeLoop(potential_new_melds, k + 1, loose_options, st)

\* Solver._phase_loose_tile_scavenging: the working rack and board it leaves and the
\* list it returns
PhaseLooseTileScavenging(rack_tiles, board_melds) ==
    LET sorted_melds == [m \in 1..Len(board_melds) |-> SortTiles(board_melds[m])]
        loose_options == LooseOptions(sorted_melds, 1)
        scavenge_pool == rack_tiles \o [i \in 1..Len(loose_options) |-> loose_options[i].tile]
        start == [rack |-> rack_tiles, melds |-> sorted_melds, final_new_melds |-> <<>>,
                  source_damage |-> [src \in 1..Len(board_melds) |-> 0], exc |-> "none"]
    IN  IF loose_options = <<>> THEN start
        ELSE ScavengeLoop(SortBySizeDesc(FindValidSetsInPool(scavenge_pool)), 1,
                          loose_options, start)

\* ------------------------------------------------------------------------
\* Solver.find_best_move
\* ------------------------------------------------------------------------
NoResult == [kind |-> "pending", melds |-> <<>>]

\* rack.tiles after the working rack changed: line 26 works on the slice copy
\* rack.tiles[:], a list of its own
CallerRackAfter(caller_tiles, working_tiles) == caller_tiles

\* board.melds when the working list holds the caller's Meld objects (a shallow
\* board.melds[:] in place of line 23)
CallerBoardShared(caller_melds, working_melds) ==
    [m \in 1..Len(caller_melds) |-> working_melds[m]]

\* board.melds after the working melds changed: line 23 builds new Meld objects over
\* the slice copies m.tiles[:]
CallerBoardAfter(caller_melds, working_melds) == caller_melds

\* what a phase leaves behind and where the call goes next
Step(r, melds, next) ==
    /\ current_rack_tiles' = r.rack
    /\ board_copy_melds' = melds
    /\ rack' = CallerRackAfter(rack, r.rack)
    /\ board' = CallerBoardAfter(board, melds)
    /\ pc' = IF r.exc = "none" THEN next ELSE "raised"
    /\ result' = IF r.exc = "none" THEN result ELSE [kind |-> r.exc, melds |-> <<>>]
    /\ UNCHANGED <<meld, arg, pre>>

\* the two-colour sets missing from a group-like meld of the board: the only sets on
\* which the set order is consulted
MissingPairs(board_melds) ==
    {S \in ColorPairs : \E m \in 1..Len(board_melds) :
        LET real == SelectSeq(board_melds[m], NotJoker)
        IN  ColorSet \ {real[i].color : i \in 1..Len(real)} = S}

\* lines 21-30: clone the board and the rack, then Phase 1
Phase1 ==
    /\ pc = "call"
    /\ \E flip \in SUBSET MissingPairs(board) :
          LET r == PhaseJokerRetrieval(rack, board, flip)
          IN  Step(r, r.melds, "phase2")
    /\ before' = [rack |-> rack, melds |-> board]

\* lines 32-36
Phase2 ==
    /\ pc = "phase2"
    /\ LET r == PhaseRackOnly(current_rack_tiles)
       IN  Step(r, board_copy_melds \o r.formed, "phase3")
    /\ before' = [rack |-> current_rack_tiles, melds |-> board_copy_melds]

\* lines 38-40
Phase3 ==
    /\ pc = "phase3"
    /\ LET r == PhaseExtensions(current_rack_tiles, board_copy_melds)
       IN  Step(r, r.melds, "phase4")
    /\ before' = [rack |-> current_rack_tiles, melds |-> board_copy_melds]

\* lines 42-46
Phase4 ==
    /\ pc = "phase4"
    /\ LET r == PhaseLooseTileScavenging(current_rack_tiles, board_copy_melds)
       IN  Step(r, r.melds \o r.final_new_melds, "final")
    /\ before' = [rack |-> current_rack_tiles, melds |-> board_copy_melds]

\* the comparison of line 51 with <= for <
PlayedOrEqual(working_tiles, caller_tiles) == Len(working_tiles) <= Len(caller_tiles)

\* the comparison of line 51
Played(working_tiles, caller_tiles) == Len(working_tiles) < Len(caller_tiles)

\* lines 48-54
Final ==
    /\ pc = "final"
    /\ pc' = "done"
    /\ result' = IF Played(current_rack_tiles, rack)
                 THEN [kind |-> "melds", melds |-> board_copy_melds]
                 ELSE [kind |-> "None", melds |-> <<>>]
    /\ UNCHANGED <<rack, board, current_rack_tiles, board_copy_melds, meld, arg, pre, before>>

Next == Phase1 \/ Phase2 \/ Phase3 \/ Phase4 \/ Final

\* ------------------------------------------------------------------------
\* Rack.remove_tiles
\* ------------------------------------------------------------------------
\* remove_tiles removing from self.tiles itself, without rack_backup
RackRemoveInPlace(self_tiles, tiles_to_remove) ==
    LET r == RemoveAll(self_tiles, tiles_to_remove, 1)
    IN  IF r.exc # "none" THEN [tiles |-> r.list, ret |-> FALSE]
        ELSE [tiles |-> SortTiles(r.list), ret |-> TRUE]

\* Rack.remove_tiles: self.tiles after the call and the value returned
RackRemoveTiles(self_tiles, tiles_to_remove) ==
    LET rack_backup == RemoveAll(self_tiles, tiles_to_remove, 1)
    IN  IF rack_backup.exc # "none" THEN [tiles |-> self_tiles, ret |-> FALSE]
        ELSE [tiles |-> SortTiles(rack_backup.list), ret |-> TRUE]

\* ------------------------------------------------------------------------
\* Inputs
\* ------------------------------------------------------------------------
SeqsUpTo(U, n) == UNION {[1..k -> U] : k \in 0..n}

\* the lists sorted() can return: Rack.__init__, add_tile and remove_tiles keep
\* rack.tiles sorted
SortedSeqsUpTo(U, n) == {s \in SeqsUpTo(U, n) : IsSortedTiles(s)}

\* Deck.NUM_SETS: tiles of every colour and value in the deck
NUM_SETS == 2

\* Deck.NUM_JOKERS: jokers in the deck
NUM_JOKERS == 2

\* tiles equal to t that Deck.__init__ creates
DeckCount(t) == IF t.is_joker THEN NUM_JOKERS ELSE NUM_SETS

RECURSIVE CountInMelds(_, _, _)
CountInMelds(melds, t, m) ==
    IF m > Len(melds) THEN 0
    ELSE Count(melds[m], t) + CountInMelds(melds, t, m + 1)

\* copies of tile t in a rack and a meld list together
Copies(rack_tiles, melds, t) == Count(rack_tiles, t) + CountInMelds(melds, t, 1)

AllTilesOf(rack_tiles, melds) ==
    Range(rack_tiles) \cup UNION {Range(melds[m]) : m \in 1..Len(melds)}

DeckOK(rack_tiles, melds) ==
    \A t \in AllTilesOf(rack_tiles, melds) : Copies(rack_tiles, melds, t) <= DeckCount(t)

\* the valid melds of 3 or 4 tiles in the order is_valid leaves them in
ValidMelds ==
    {s \in [1..3 -> Tiles(MaxVal)] \cup [1..4 -> Tiles(MaxVal)] :
        IsSortedTiles(s) /\ IsValid(s) /\ Count(s, JOKER) <= NUM_JOKERS}

\* a joker-free run of colour c over the values from..to
RunOf(c, from, to) == [i \in 1..(to - from + 1) |-> Tile(c, from + i - 1)]

Idle ==
    /\ current_rack_tiles = <<>>
    /\ board_copy_melds = <<>>
    /\ result = NoResult
    /\ meld = <<>>
    /\ arg = <<>>
    /\ before = [rack |-> <<>>, melds |-> <<>>]

\* arbitrary boards: no meld or one meld of any tiles in any stored order
InitJunk ==
    /\ pc = "call"
    /\ board \in {<<>>} \cup {<<m>> : m \in SeqsUpTo(Tiles(JunkVal), JunkMeldLen)}
    /\ rack \in SortedSeqsUpTo(Tiles(JunkVal), JunkRack)
    /\ pre = [rack |-> rack, board |-> board]
    /\ Idle

SpecJunk == InitJunk /\ [][Next]_vars

\* boards of one valid meld
InitValid ==
    /\ pc = "call"
    /\ board \in {<<m>> : m \in ValidMelds}
    /\ rack \in SortedSeqsUpTo(Tiles(MaxVal), MaxRack)
    /\ DeckOK(rack, board)
    /\ pre = [rack |-> rack, board |-> board]
    /\ Idle

SpecValid == InitValid /\ [][Next]_vars

\* boards of one long joker-free run
InitScavenge ==
    /\ pc = "call"
    /\ board \in {<<RunOf(c, 1, n)>> : c \in ColorSet, n \in 4..MaxRunLen}
    /\ rack \in SortedSeqsUpTo(Tiles(ScavengeVal), ScavengeRack)
    /\ DeckOK(rack, board)
    /\ pre = [rack |-> rack, board |-> board]
    /\ Idle

SpecScavenge == InitScavenge /\ [][Next]_vars

\* every solver input above
Init == InitJunk \/ InitValid \/ InitScavenge

Spec == Init /\ [][Next]_vars

Permutations3(a, b, c) ==
    {<<a, b, c>>, <<a, c, b>>, <<b, a, c>>, <<b, c, a>>, <<c, a, b>>, <<c, b, a>>}

\* the joker-rescue boards: the run stored as [c r, joker, c r+2], and a rack of
\* (c, r+1) with two tiles of another value v in two colours, in any rack order
InitRescue ==
    /\ pc = "call"
    /\ \E c \in ColorSet, r \in 1..(MAX_TILE_VAL - 2), v \in 1..MAX_TILE_VAL,
          pair \in ColorPairs :
          /\ v # r + 1
          /\ board = <<<<Tile(c, r), JOKER, Tile(c, r + 2)>>>>
          /\ LET c1 == CHOOSE x \in pair : TRUE
                 c2 == CHOOSE x \in pair : x # c1
             IN  rack \in Permutations3(Tile(c, r + 1), Tile(c1, v), Tile(c2, v))
    /\ pre = [rack |-> rack, board |-> board]
    /\ Idle

SpecRescue == InitRescue /\ [][Next]_vars

\* ------------------------------------------------------------------------
\* Meld.is_valid called twice on one Meld object
\* ------------------------------------------------------------------------
OneValueTiles(v) == {Tile(c, v) : c \in ColorSet} \cup {JOKER}

InitMeld ==
    /\ pc = "meld"
    /\ meld \in SeqsUpTo(Tiles(ValidatorVal), ValidatorLen)
               \cup UNION {SeqsUpTo(OneValueTiles(v), GroupLen) : v \in 1..ValidatorVal}
    /\ pre = meld
    /\ result = <<>>
    /\ rack = <<>> /\ board = <<>> /\ current_rack_tiles = <<>>
    /\ board_copy_melds = <<>> /\ arg = <<>>
    /\ before = [rack |-> <<>>, melds |-> <<>>]

\* one call of Meld.is_valid: the value returned, and self.tiles sorted in place
MeldIsValid ==
    /\ pc = "meld"
    /\ Len(result) < 2
    /\ result' = Append(result, IsValid(meld))
    /\ meld' = TilesAfterIsValid(meld)
    /\ UNCHANGED <<pc, rack, board, current_rack_tiles, board_copy_melds, arg, pre, before>>

SpecMeld == InitMeld /\ [][MeldIsValid]_vars

\* ------------------------------------------------------------------------
\* Rack.remove_tiles called on a rack
\* ------------------------------------------------------------------------
InitRack ==
    /\ pc = "rack"
    /\ rack \in SortedSeqsUpTo(Tiles(RemoveVal), RemoveRack)
    /\ arg \in SeqsUpTo(Tiles(RemoveVal), MaxArg)
    /\ pre = rack
    /\ result = <<>>
    /\ board = <<>> /\ current_rack_tiles = <<>> /\ board_copy_melds = <<>> /\ meld = <<>>
    /\ before = [rack |-> <<>>, melds |-> <<>>]

RemoveTiles ==
    /\ pc = "rack"
    /\ LET r == RackRemoveTiles(rack, arg)
       IN  /\ rack' = r.tiles
           /\ result' = <<r.ret>>
    /\ pc' = "removed"
    /\ UNCHANGED <<board, current_rack_tiles, board_copy_melds, meld, arg, pre, before>>

SpecRack == InitRack /\ [][RemoveTiles]_vars

\* ------------------------------------------------------------------------
\* Properties
\* ------------------------------------------------------------------------
Returned == pc = "done" /\ result.kind = "melds"

AllValid(melds) == \A m \in 1..Len(melds) : IsValid(melds[m])

\* C1: when the board's melds are all valid and find_best_move returns a meld list,
\* every meld of that list satisfies is_valid
C1_ReturnedMeldsValid ==
    (Returned /\ AllValid(pre.board)) => AllValid(result.melds)

\* C2: after Phase 4 the working rack and the resulting meld list hold every tile
\* value exactly as often as the initial rack and board did
C2_Conservation ==
    pc \in {"final", "done"} =>
        \A t \in AllTilesOf(current_rack_tiles, board_copy_melds)
                 \cup AllTilesOf(pre.rack, pre.board) :
            Copies(current_rack_tiles, board_copy_melds, t) = Copies(pre.rack, pre.board, t)

\* C3: find_best_move returns the working meld list exactly when the working rack
\* ended with fewer tiles than the initial rack, and None in every other case
C3_ReturnsIffRackShrank ==
    pc = "done" =>
        IF Len(current_rack_tiles) < Len(pre.rack)
        THEN result = [kind |-> "melds", melds |-> board_copy_melds]
        ELSE result = [kind |-> "None", melds |-> <<>>]

C3_Witness == Returned /\ Len(current_rack_tiles) + 2 = Len(pre.rack)

C5_NoException ==
    /\ pc # "raised"
    /\ pc = "done" => result.kind \in {"melds", "None"}
    /\ pc \in {"call", "phase2", "phase3", "phase4", "final", "done"}

C5_Witness ==
    /\ pc = "done"
    /\ pre.board = <<<<>>>>
    /\ pre.rack # <<>>
    /\ ~pre.rack[1].is_joker

Reals(tiles) == SelectSeq(tiles, NotJoker)

OneValue(tiles) == \A i, j \in 1..Len(tiles) : tiles[i].val = tiles[j].val

\* C6: a meld with a non-joker tile whose non-joker tiles share one value is valid
\* exactly when it has 3 or 4 tiles and no two non-joker tiles share a colour
C6_GroupRule ==
    (Len(result) >= 1 /\ Reals(pre) # <<>> /\ OneValue(Reals(pre))) =>
        (result[1] <=>
            /\ Len(pre) \in {3, 4}
            /\ \A i, j \in 1..Len(Reals(pre)) :
                  i # j => Reals(pre)[i].color # Reals(pre)[j].color)

C6_Witness ==
    /\ Len(result) >= 1
    /\ result[1]
    /\ Len(pre) = 4
    /\ Count(pre, JOKER) = 1

\* sum of (difference - 1) over the pairs of neighbouring values of a set of values
RECURSIVE SumGaps(_)
SumGaps(V) ==
    IF Cardinality(V) < 2 THEN 0
    ELSE LET lo == CHOOSE x \in V : \A y \in V : x <= y
             nxt == CHOOSE x \in V \ {lo} : \A y \in V \ {lo} : x <= y
         IN  (nxt - lo - 1) + SumGaps(V \ {lo})

Orders(s) == {[i \in 1..Len(s) |-> s[f[i]]] : f \in Permutations(1..Len(s))}

\* C8: is_valid returns the same value for every storage order of the meld's tiles,
\* and the same value again when called a second time on the meld it has sorted
C8_OrderIndependent ==
    /\ Len(result) >= 1 => \A p \in Orders(pre) : IsValid(p) = result[1]
    /\ Len(result) = 2 => result[2] = result[1]

C8_Witness ==
    /\ Len(result) = 2
    /\ result[1]
    /\ ~IsSortedTiles(pre)
    /\ meld # pre

\* the list, counted with multiplicity, is contained in the rack
Contained(list, rack_tiles) ==
    \A t \in Range(list) : Count(list, t) <= Count(rack_tiles, t)

\* C9: remove_tiles returns False and leaves the rack as it was when the list is not
\* contained in the rack; otherwise it returns True and the rack loses one tile per
\* listed entry and nothing else
C9_AllOrNothing ==
    pc = "removed" =>
        IF Contained(arg, pre)
        THEN /\ result = <<TRUE>>
             /\ \A t \in Range(pre) \cup Range(rack) :
                   Count(rack, t) = Count(pre, t) - Count(arg, t)
        ELSE /\ result = <<FALSE>>
             /\ rack = pre

C9_Witness ==
    /\ pc = "removed"
    /\ result = <<FALSE>>
    /\ Len(arg) = 2
    /\ arg[1] \in Range(pre)

\* C10: for the board [c r, joker, c r+2] and the rack of (c, r+1) with two tiles of
\* another value in two colours, the returned board is the run r, r+1, r+2 of real
\* tiles followed by one 3-tile meld of the joker and the two other rack tiles
C10_JokerRescue ==
    pc = "done" =>
        LET run == pre.board[1]
            key == Tile(run[1].color, run[1].val + 1)
            others == SelectSeq(pre.rack, LAMBDA t : t # key)
        IN  /\ result.kind = "melds"
            /\ Len(result.melds) = 2
            /\ result.melds[1] = <<run[1], key, run[3]>>
            /\ Len(result.melds[2]) = 3
            /\ Range(result.melds[2]) = Range(others) \cup {JOKER}
            /\ OneValue(Reals(result.melds[2]))
            /\ IsValid(result.melds[2])

C10_Witness ==
    /\ Returned
    /\ pre.board[1][2] = JOKER
    /\ JOKER \notin Range(result.melds[1])
    /\ JOKER \in Range(result.melds[2])

\* ------------------------------------------------------------------------
\* The scenarios of src/tests/TestSolver.py, over every colour and value
\* ------------------------------------------------------------------------
Reverse(s) == [i \in 1..Len(s) |-> s[Len(s) + 1 - i]]

\* test_phase_4_scavenge_group: one 4-tile group of value r in any stored order, and
\* a rack of (c, r-1) and (c, r+1) in either order
InitGroupScavenge ==
    /\ pc = "call"
    /\ \E c \in ColorSet, r \in 2..(MAX_TILE_VAL - 1) :
          /\ board \in {<<g>> : g \in Orders([i \in 1..Len(COLORS) |-> Tile(COLORS[i], r)])}
          /\ rack \in {<<Tile(c, r - 1), Tile(c, r + 1)>>, <<Tile(c, r + 1), Tile(c, r - 1)>>}
    /\ pre = [rack |-> rack, board |-> board]
    /\ Idle

SpecGroupScavenge == InitGroupScavenge /\ [][Next]_vars

\* C11: for the board of one 4-tile group of value r and the rack of (c, r-1) and
\* (c, r+1), the call returns two melds: the group without its tile of colour c, and
\* the run (c, r-1), (c, r), (c, r+1); the working rack ends empty
C11_GroupScavenge ==
    pc = "done" =>
        LET c == pre.rack[1].color
            r == pre.board[1][1].val
        IN  /\ result.kind = "melds"
            /\ Len(result.melds) = 2
            /\ result.melds[1] = SortTiles(SelectSeq(pre.board[1], LAMBDA t : t.color # c))
            /\ Len(result.melds[1]) = 3
            /\ result.melds[2] = RunOf(c, r - 1, r + 1)
            /\ current_rack_tiles = <<>>

C11_Witness ==
    /\ Returned
    /\ Len(before.melds[1]) = 4
    /\ Len(board_copy_melds[1]) = 3
    /\ ~IsSortedTiles(pre.board[1])
    /\ pre.rack[1].color = "Orange"

\* test_phase_3_extension: one joker-free run of 3 or more tiles, stored lowest first
\* or highest first, and a rack of the one tile just below or just above it
InitExtension ==
    /\ pc = "call"
    /\ \E c \in ColorSet, lo \in 1..MAX_TILE_VAL, hi \in 1..MAX_TILE_VAL :
          /\ hi >= lo + 2
          /\ board \in {<<RunOf(c, lo, hi)>>, <<Reverse(RunOf(c, lo, hi))>>}
          /\ \E v \in {lo - 1, hi + 1} :
                /\ v \in 1..MAX_TILE_VAL
                /\ rack = <<Tile(c, v)>>
    /\ pre = [rack |-> rack, board |-> board]
    /\ Idle

SpecExtension == InitExtension /\ [][Next]_vars

\* C12: for the board of one joker-free run of n tiles and the rack of one tile of its
\* colour just above or below it, the call returns one meld of n + 1 tiles that holds
\* the rack tile, and the working rack ends empty
C12_Extension ==
    pc = "done" =>
        /\ result.kind = "melds"
        /\ Len(result.melds) = 1
        /\ Len(result.melds[1]) = Len(pre.board[1]) + 1
        /\ pre.rack[1] \in Range(result.melds[1])
        /\ result.melds[1] = SortTiles(pre.board[1] \o pre.rack)
        /\ current_rack_tiles = <<>>

C12_Witness ==
    /\ Returned
    /\ Len(pre.board[1]) >= 4
    /\ result.melds[1][1] = pre.rack[1]
    /\ ~IsSortedTiles(pre.board[1])

\* test_phase_2_rack_only: an empty board and a rack of 3 or more tiles of one colour
\* with consecutive values, held lowest first or highest first
InitHandOnly ==
    /\ pc = "call"
    /\ board = <<>>
    /\ \E c \in ColorSet, lo \in 1..MAX_TILE_VAL, hi \in 1..MAX_TILE_VAL :
          /\ hi >= lo + 2
          /\ rack \in {RunOf(c, lo, hi), Reverse(RunOf(c, lo, hi))}
    /\ pre = [rack |-> rack, board |-> board]
    /\ Idle

SpecHandOnly == InitHandOnly /\ [][Next]_vars

\* C13: for an empty board and a rack of n >= 3 tiles of one colour with consecutive
\* values, the call returns exactly one meld, which holds all n rack tiles, and the
\* working rack ends empty
C13_HandOnly ==
    pc = "done" =>
        /\ result.kind = "melds"
        /\ Len(result.melds) = 1
        /\ SortTiles(result.melds[1]) = SortTiles(pre.rack)
        /\ current_rack_tiles = <<>>

C13_Witness ==
    /\ Returned
    /\ Len(pre.rack) >= 5
    /\ ~IsSortedTiles(pre.rack)
    /\ Len(result.melds[1]) = Len(pre.rack)

\* ------------------------------------------------------------------------
\* Boards of two valid melds: donors of loose tiles next to 3-tile melds
\* ------------------------------------------------------------------------
\* groups of 3 and 4 tiles, joker-free runs from 1 up, and runs closed by a joker, each
\* in the order is_valid leaves it in
DonorMelds ==
    {SortTiles(g) : g \in {s \in [1..3 -> Tiles(DonorVal) \ {JOKER}]
                               \cup [1..4 -> Tiles(DonorVal) \ {JOKER}] :
                               IsSortedTiles(s) /\ OneValue(s) /\ IsValid(s)}}
    \cup {RunOf(c, 1, n) : c \in ColorSet, n \in 3..DonorRun}
    \cup {Append(RunOf(c, 1, 4), JOKER) : c \in ColorSet}

InitDonors ==
    /\ pc = "call"
    /\ board \in {<<m1, m2>> : m1 \in DonorMelds, m2 \in DonorMelds}
    /\ rack \in SortedSeqsUpTo(Tiles(DonorVal), DonorRack)
    /\ DeckOK(rack, board)
    /\ pre = [rack |-> rack, board |-> board]
    /\ Idle

SpecDonors == InitDonors /\ [][Next]_vars

\* the melds Phase 4 appended to the working board
NewMelds == SubSeq(board_copy_melds, Len(before.melds) + 1, Len(board_copy_melds))

\* Phase 4 has run and accepted at least one candidate
Scavenged == pc = "final" /\ NewMelds # <<>>

\* C14: every working-board meld of exactly 3 tiles at the start of Phase 4 holds the
\* same tiles at its end
C14_ThreeTileMeldKept ==
    pc = "final" =>
        \A m \in 1..Len(before.melds) :
            Len(before.melds[m]) = 3 =>
                SortTiles(board_copy_melds[m]) = SortTiles(before.melds[m])

C14_Witness ==
    /\ Scavenged
    /\ \E m, d \in 1..Len(before.melds) :
          /\ Len(before.melds[m]) = 3
          /\ Len(before.melds[d]) > Len(board_copy_melds[d])
          /\ Range(before.melds[m]) \cap Range(before.melds[d]) # {}
          /\ before.melds[d][1] \in Range(before.melds[m])

\* C15: over Phase 4 every tile value is held by working rack and working board
\* together exactly as often as before: what the accepted melds took from the donors
\* has left the donors, and no loose tile went into two accepted melds
C15_DonorsGiveWhatIsTaken ==
    pc = "final" =>
        \A t \in AllTilesOf(current_rack_tiles, board_copy_melds)
                 \cup AllTilesOf(before.rack, before.melds) :
            Copies(current_rack_tiles, board_copy_melds, t)
                = Copies(before.rack, before.melds, t)

\* C16: a valid board meld with a joker that Phase 1 changed by a swap is still valid
\* after Phase 1
C16_SwapKeepsMeldValid ==
    pc = "phase2" =>
        \A m \in 1..Len(before.melds) :
            (/\ IsValid(before.melds[m])
             /\ JOKER \in Range(before.melds[m])
             /\ board_copy_melds[m] # before.melds[m])
                => IsValid(board_copy_melds[m])

\* C17: every loose option Phase 4 listed for a valid meld of more than 3 tiles can be
\* removed on its own and leave that meld valid
C17_LooseTileRemovable ==
    pc = "final" =>
        \A m \in 1..Len(before.melds) :
            (IsValid(before.melds[m]) /\ Len(before.melds[m]) > 3) =>
                LET sorted == SortTiles(before.melds[m])
                    options == LooseOfMeld(sorted, m)
                IN  \A k \in 1..Len(options) :
                        IsValid(ListRemove(sorted, options[k].tile).list)

C19_NewMeldUsesRack ==
    pc = "final" =>
        /\ \A k \in 1..Len(NewMelds) : Range(NewMelds[k]) \cap Range(before.rack) # {}
        /\ Len(before.rack) - Len(current_rack_tiles) >= Len(NewMelds)

C19_Witness ==
    /\ Scavenged
    /\ Len(before.rack) - Len(current_rack_tiles) = 1
    /\ Len(NewMelds[1]) = 3
    /\ \E m, d \in 1..Len(before.melds) :
          /\ m # d
          /\ Len(before.melds[m]) > Len(board_copy_melds[m])
          /\ Len(before.melds[d]) > Len(board_copy_melds[d])

\* C20: over Phase 3 every working-board meld keeps the tiles it had, a meld that was
\* valid is still valid, a meld of unchanged size holds the same tiles as before, and
\* the tiles the melds gained are the tiles the working rack lost
C20_ExtensionsKeepValid ==
    pc = "phase4" =>
        /\ Len(board_copy_melds) = Len(before.melds)
        /\ \A m \in 1..Len(before.melds) :
              /\ IsValid(before.melds[m]) => IsValid(board_copy_melds[m])
              /\ \A t \in Range(before.melds[m]) :
                    Count(board_copy_melds[m], t) >= Count(before.melds[m], t)
              /\ Len(board_copy_melds[m]) = Len(before.melds[m]) =>
                    SortTiles(board_copy_melds[m]) = SortTiles(before.melds[m])
        /\ \A t \in AllTilesOf(before.rack, before.melds) :
              Copies(current_rack_tiles, board_copy_melds, t)
                  = Copies(before.rack, before.melds, t)

C20_Witness ==
    /\ pc = "phase4"
    /\ Len(before.melds) = 1
    /\ IsValid(before.melds[1])
    /\ Len(board_copy_melds[1]) = Len(before.melds[1]) + 1
    /\ current_rack_tiles # <<>>
    /\ ~current_rack_tiles[1].is_joker
    /\ CanExtend(board_copy_melds[1], current_rack_tiles[1]).fits

\* tiles equal to t that the melds of the working board gained over the last phase
RECURSIVE Gained(_, _)
Gained(t, m) ==
    IF m > Len(before.melds) THEN 0
    ELSE (Count(board_copy_melds[m], t) - Count(before.melds[m], t)) + Gained(t, m + 1)

\* C21: after Phase 3 every tile of the working rack the phase started with is either
\* still in the rack and in no meld, or gone from the rack and added to exactly one
\* meld: per tile value, the melds gained exactly what the rack lost
C21_TileInOnePlace ==
    pc = "phase4" =>
        /\ Len(board_copy_melds) = Len(before.melds)
        /\ \A t \in Range(before.rack) \cup Range(current_rack_tiles) :
              /\ Count(current_rack_tiles, t) <= Count(before.rack, t)
              /\ Gained(t, 1) = Count(before.rack, t) - Count(current_rack_tiles, t)
        /\ \A m \in 1..Len(before.melds) :
              \A t \in Range(board_copy_melds[m]) :
                  Count(board_copy_melds[m], t) > Count(before.melds[m], t)
                      => t \in Range(before.rack)

C21_Witness ==
    /\ pc = "phase4"
    /\ Len(before.melds) = 2
    /\ Len(before.rack) = 2
    /\ Len(current_rack_tiles) = 1
    /\ Len(board_copy_melds[1]) = Len(before.melds[1]) + 1
    /\ board_copy_melds[2] = before.melds[2]
    /\ \E t \in Range(before.rack) :
          /\ t \notin Range(current_rack_tiles)
          /\ IsValid(Append(before.melds[2], t))

\* the colours of the palette that no non-joker tile of the meld has
MissingColors(tiles) == ColorSet \ {Reals(tiles)[i].color : i \in 1..Len(Reals(tiles))}

\* a valid group that holds a joker: two or three non-joker tiles of one value
GroupWithJoker(tiles) ==
    /\ IsValid(tiles)
    /\ Len(Reals(tiles)) >= 2
    /\ Len(Reals(tiles)) < Len(tiles)
    /\ OneValue(Reals(tiles))

\* C22: Phase 1 swaps the joker of a group only when exactly one colour is missing
\* from the group's non-joker tiles: a group with a joker that misses no colour or
\* more than one colour leaves Phase 1 as it entered it
C22_GroupSwapNeedsOneMissing ==
    pc = "phase2" =>
        \A m \in 1..Len(before.melds) :
            (GroupWithJoker(before.melds[m])
               /\ Cardinality(MissingColors(before.melds[m])) # 1)
                => board_copy_melds[m] = before.melds[m]

\* a valid run: its non-joker tiles have two or more values
RunMeld(tiles) ==
    /\ IsValid(tiles)
    /\ \E i, j \in 1..Len(Reals(tiles)) : Reals(tiles)[i].val # Reals(tiles)[j].val

\* position j of the list holds a joker and a position next to it holds another
JokerNextToJoker(tiles, j) ==
    /\ IsJoker(tiles[j])
    /\ \/ j > 1 /\ IsJoker(tiles[j - 1])
       \/ j < Len(tiles) /\ IsJoker(tiles[j + 1])

\* C23: a joker of a run that is stored next to another joker is not resolved and not
\* swapped in Phase 1: it is at its place in the meld when the phase is over
C23_AdjacentJokersKept ==
    pc = "phase2" =>
        \A m \in 1..Len(before.melds) :
            RunMeld(before.melds[m]) =>
                \A j \in 1..Len(before.melds[m]) :
                    JokerNextToJoker(before.melds[m], j)
                        => IsJoker(board_copy_melds[m][j])

\* ------------------------------------------------------------------------
\* _find_valid_sets_in_pool called on a pool
\* ------------------------------------------------------------------------
PoolVal == 4
PoolLen == 4

InitPool ==
    /\ pc = "pool"
    /\ arg \in SeqsUpTo(Tiles(PoolVal), PoolLen)
    /\ pre = arg
    /\ result = <<>>
    /\ rack = <<>> /\ board = <<>> /\ current_rack_tiles = <<>>
    /\ board_copy_melds = <<>> /\ meld = <<>>
    /\ before = [rack |-> <<>>, melds |-> <<>>]

\* one call of _find_valid_sets_in_pool: the tile lists of the melds it returns
FindValidSets ==
    /\ pc = "pool"
    /\ result' = FindValidSetsInPool(arg)
    /\ pc' = "emitted"
    /\ UNCHANGED <<rack, board, current_rack_tiles, board_copy_melds, meld, arg, pre, before>>

SpecPool == InitPool /\ [][FindValidSets]_vars

\* the emitted melds hold a meld of exactly these distinct tiles
Emitted(S) ==
    \E k \in 1..Len(result) : Range(result[k]) = S /\ Len(result[k]) = Cardinality(S)

\* C24: for every rank, the generator emits a group for every choice of 3 pool tiles
\* of that rank with distinct colours, and the 4-tile group when the pool has the
\* rank in all 4 colours
C24_EveryColourSubset ==
    pc = "emitted" =>
        \A v \in 1..PoolVal :
            \A S \in SUBSET ColorSet :
                (Cardinality(S) >= 3 /\ \A c \in S : Tile(c, v) \in Range(arg))
                    => Emitted({Tile(c, v) : c \in S})

\* C25: for every colour, the generator emits a run for every 3 or more pool tiles of
\* that colour with consecutive ranks, the proper sub-ranges of a longer sequence
\* included
C25_EverySubRange ==
    pc = "emitted" =>
        \A c \in ColorSet :
            \A lo, hi \in 1..PoolVal :
                (hi >= lo + 2 /\ \A v \in lo..hi : Tile(c, v) \in Range(arg))
                    => Emitted({Tile(c, v) : v \in lo..hi})

\* C26: every meld the generator emits passes is_valid and holds at most one joker
C26_EmittedValid ==
    pc = "emitted" =>
        \A k \in 1..Len(result) :
            /\ IsValid(result[k])
            /\ Count(result[k], JOKER) <= 1

C26_Witness ==
    /\ pc = "emitted"
    /\ \E t \in Range(arg) : Count(arg, t) > 1
    /\ \E k \in 1..Len(result) : Count(result[k], JOKER) = 1

\* ------------------------------------------------------------------------
\* find_best_move on a board of one long run and a rack of tiles of its two end values
\* ------------------------------------------------------------------------
TwoEndsRun == 5
TwoEndsRack == 4

InitTwoEnds ==
    /\ pc = "call"
    /\ board \in {<<RunOf(c, 1, n)>> : c \in ColorSet, n \in 5..TwoEndsRun}
    /\ rack \in SortedSeqsUpTo(
                   {Tile(c, v) : c \in ColorSet, v \in {1, Len(board[1])}}, TwoEndsRack)
    /\ DeckOK(rack, board)
    /\ pre = [rack |-> rack, board |-> board]
    /\ Idle

SpecTwoEnds == InitTwoEnds /\ [][Next]_vars

\* the move's loose tiles are all still in their donors, and every donor it touches
\* holds 3 or more tiles once they are taken out of the melds as they stand
ReallySafe(board_melds, loose_options, idxs) ==
    LET rl == RemoveLoose(board_melds, loose_options, idxs, 1)
    IN  \A src \in {loose_options[idxs[k]].src : k \in 1..Len(idxs)} :
            /\ Len(rl.melds[src])
                  = Len(board_melds[src]) - MoveDamage(loose_options, idxs, src)
            /\ Len(rl.melds[src]) >= 3

\* some candidate from position k on is fully sourceable, uses a rack tile and would
\* leave every donor it touches with 3 or more tiles, and the pass rejects it
RECURSIVE RejectsSafeMove(_, _, _, _)
RejectsSafeMove(potential_new_melds, k, loose_options, st) ==
    IF k > Len(potential_new_melds) THEN FALSE
    ELSE LET g == Ingredients(potential_new_melds[k], st.rack, loose_options)
             idxs == g.temp_needed_loose_indices
         IN  \/ /\ g.valid_meld_construction
                /\ g.uses_rack
                /\ ReallySafe(st.melds, loose_options, idxs)
                /\ ~IsSafe(st.melds, loose_options, idxs, st.source_damage)
             \/ RejectsSafeMove(potential_new_melds, k + 1, loose_options,
                    ScavengeLoop(<<potential_new_melds[k]>>, 1, loose_options, st))

\* C27: Phase 4 rejects a candidate that is fully sourceable and uses a rack tile only
\* when taking it would leave a donor with fewer than 3 tiles, also after earlier
\* candidates of the pass took tiles from that donor
C27_RejectsOnlyUnsafe ==
    pc = "final" =>
        LET sorted_melds == [m \in 1..Len(before.melds) |-> SortTiles(before.melds[m])]
            loose_options == LooseOptions(sorted_melds, 1)
            scavenge_pool ==
                before.rack \o [i \in 1..Len(loose_options) |-> loose_options[i].tile]
            start == [rack |-> before.rack, melds |-> sorted_melds,
                      final_new_melds |-> <<>>,
                      source_damage |-> [src \in 1..Len(before.melds) |-> 0],
                      exc |-> "none"]
        IN  ~RejectsSafeMove(SortBySizeDesc(FindValidSetsInPool(scavenge_pool)), 1,
                             loose_options, start)

\* ------------------------------------------------------------------------
\* RummikubGUI.run_solver on the rack and the board of the window
\* ------------------------------------------------------------------------
\* Solver.find_best_move as one call: what it returns, or the exception it raises
FindBestMove(rack_tiles, board_melds, flip) ==
    LET p1 == PhaseJokerRetrieval(rack_tiles, board_melds, flip)
        p2 == PhaseRackOnly(p1.rack)
        p3 == PhaseExtensions(p2.rack, p1.melds \o p2.formed)
        p4 == PhaseLooseTileScavenging(p3.rack, p3.melds)
    IN  IF p1.exc # "none" THEN [kind |-> p1.exc, melds |-> <<>>]
        ELSE IF p2.exc # "none" THEN [kind |-> p2.exc, melds |-> <<>>]
        ELSE IF p3.exc # "none" THEN [kind |-> p3.exc, melds |-> <<>>]
        ELSE IF p4.exc # "none" THEN [kind |-> p4.exc, melds |-> <<>>]
        ELSE IF Played(p4.rack, rack_tiles)
             THEN [kind |-> "melds", melds |-> p4.melds \o p4.final_new_melds]
             ELSE [kind |-> "None", melds |-> <<>>]

\* Board.get_all_tiles: the tiles of the melds from m on, in list order
RECURSIVE GetAllTiles(_, _)
GetAllTiles(melds, m) ==
    IF m > Len(melds) THEN <<>> ELSE melds[m] \o GetAllTiles(melds, m + 1)

\* Counter(new_board_tiles) - Counter(old_board_tiles): positive counts only
TilesGained(new_board_tiles, old_board_tiles) ==
    [t \in Range(new_board_tiles) |->
        IF Count(new_board_tiles, t) > Count(old_board_tiles, t)
        THEN Count(new_board_tiles, t) - Count(old_board_tiles, t)
        ELSE 0]

\* the loop of lines 301-305 from position i on
RECURSIVE HighlightTiles(_, _, _)
HighlightTiles(new_board_tiles, i, tiles_gained_counter) ==
    IF i > Len(new_board_tiles) THEN <<>>
    ELSE LET tile == new_board_tiles[i]
         IN  IF tiles_gained_counter[tile] > 0
             THEN <<tile>> \o HighlightTiles(new_board_tiles, i + 1,
                      [tiles_gained_counter EXCEPT ![tile] = @ - 1])
             ELSE HighlightTiles(new_board_tiles, i + 1, tiles_gained_counter)

InitGUI ==
    /\ pc = "gui"
    /\ \/ /\ board \in {<<RunOf(c, 1, n)>> : c \in ColorSet, n \in 4..MaxRunLen}
          /\ rack \in SortedSeqsUpTo(Tiles(ScavengeVal), ScavengeRack)
       \/ /\ board \in {<<m>> : m \in ValidMelds}
          /\ rack \in SortedSeqsUpTo(Tiles(MaxVal), MaxRack)
    /\ DeckOK(rack, board)
    /\ pre = [rack |-> rack, board |-> board]
    /\ Idle

\* RummikubGUI.run_solver: line 310 drops the value of remove_tiles and line 314
\* assigns the board whatever it was; result keeps what find_best_move and
\* remove_tiles returned
RunSolver ==
    /\ pc = "gui"
    /\ \E best_move \in {FindBestMove(rack, board, flip) :
                              flip \in SUBSET MissingPairs(board)} :
          LET old_board_tiles == GetAllTiles(board, 1)
              new_board_tiles == GetAllTiles(best_move.melds, 1)
              highlight_tiles ==
                  HighlightTiles(new_board_tiles, 1,
                                 TilesGained(new_board_tiles, old_board_tiles))
              r == RackRemoveTiles(rack, highlight_tiles)
          IN  IF best_move.kind = "melds" /\ best_move.melds # <<>>
              THEN /\ rack' = r.tiles
                   /\ board' = best_move.melds
                   /\ result' = [kind |-> "melds", melds |-> best_move.melds,
                                 removed |-> r.ret]
                   /\ pc' = "shown"
              ELSE /\ UNCHANGED <<rack, board>>
                   /\ result' = [kind |-> best_move.kind, melds |-> <<>>,
                                 removed |-> FALSE]
                   /\ pc' = IF best_move.kind \in {"melds", "None"}
                            THEN "shown" ELSE "raised"
    /\ UNCHANGED <<current_rack_tiles, board_copy_melds, meld, arg, pre, before>>

SpecGUI == InitGUI /\ [][RunSolver]_vars

\* C28: run_solver replaces the board by the solver's meld list only if removing the
\* played tiles from the rack succeeded; when remove_tiles fails rack and board keep
\* their state, and no tile is both in the rack and on the board
C28_BoardReplacedOnlyIfRemoved ==
    (pc = "shown" /\ result.kind = "melds" /\ ~result.removed) =>
        /\ rack = pre.rack
        /\ board = pre.board
        /\ \A t \in AllTilesOf(rack, board) :
              Copies(rack, board, t) = Copies(pre.rack, pre.board, t)

\* C29: find_best_move is a function of its inputs: the call returns what every other
\* call on the same rack and board returns, whatever order the process lists the
\* missing colours of a group in
C29_Deterministic ==
    pc = "done" =>
        \A flip \in SUBSET MissingPairs(pre.board) :
            FindBestMove(pre.rack, pre.board, flip) = result

====
